---- MODULE Spec2Model ----
(***************************************************************************)
(* Booking and payment reconciliation of the evntly backend.               *)
(*                                                                         *)
(* The persistence store is the shared state.  A request handler is a      *)
(* sequence of awaited calls (database, payment gateway, mail provider);   *)
(* each call is one step, written as a function from the store and the     *)
(* handler's local frame to the new store and frame.  Under Spec the steps *)
(* of concurrent requests interleave; under SpecSeq and SpecFault a        *)
(* request runs to completion before the next one starts.                  *)
(*                                                                         *)
(* One activity row, its organizer row and the users, registrations and    *)
(* payments tables are modelled.  A generated id is the row's position in  *)
(* its table.  updatedAt is a revision counter (rev).                      *)
(***************************************************************************)
EXTENDS Integers, Sequences, FiniteSets, TLC

\* ---------------------------------------------------------------- bounds
MaxRequests == 3
MaxSlots == 2
MaxTime == 20

\* ------------------------------------------------------ program constants
MinTickets == 1
MaxTickets == 4

\* --------------------------------------------------------- input domains
Procs == {1, 2}
FeeValues == {0, 500}
TicketInputs == {1, 2}
Identities ==
  { [email |-> "e1", phone |-> "p1"],
    [email |-> "e2", phone |-> "p1"],
    [email |-> "",   phone |-> "p2"] }
EventTypes == {"payment.captured", "order.paid", "payment.failed", "payment.authorized"}
SigSecrets == {"whsec_A", "whsec_B", ""}
KeySecrets == {"key_A", "key_B"}
UnknownOrder == 0 - 1
StatusValues == {"upcoming", "live", "completed", "canceled"}
\* sendRegistrationEmail: the mail is sent, the call returns an error result,
\* or the call throws
MailOutcomes == {"sent", "error", "throw"}

\* razorpayKeyId / razorpayKeySecret / razorpayWebhookSecret of the organizer
\* row; "" stands for NULL or blank.
OrgConfigs ==
  { [razorpayKeyId |-> "rzp_A", razorpayKeySecret |-> "key_A", razorpayWebhookSecret |-> "whsec_A"],
    [razorpayKeyId |-> "rzp_A", razorpayKeySecret |-> "key_A", razorpayWebhookSecret |-> ""],
    [razorpayKeyId |-> "",      razorpayKeySecret |-> "",      razorpayWebhookSecret |-> ""] }

VARIABLES
  activity,       \* the activities row
  organizer,      \* the organizers row the activity may point to
  users,          \* users table: Seq of [email, phone]
  registrations,  \* activity_registrations table
  payments,       \* payments table
  orders,         \* number of orders the gateway has issued
  outbox,         \* confirmation e-mails handed to the mail provider
  tally,          \* per payment: slot increments (ok) and failure transitions (ko) applied
  procs,          \* per request handler: position and locals
  nreq,           \* requests started so far
  now,            \* the clock read by new Date()
  schedules,      \* activity_schedules rows of the activity
  view            \* the last response of a read route

vars == <<activity, organizer, users, registrations, payments, orders, outbox, tally, procs, nreq,
          now, schedules, view>>

\* ------------------------------------------------------------ row helpers
NoUser == [id |-> 0, email |-> "", phone |-> ""]
NoReg == [id |-> 0, userId |-> 0, status |-> "registered", ticketCount |-> 0, rev |-> 0]
NoPay == [id |-> 0, registrationId |-> 0, amount |-> 0, status |-> "pending",
          paymentMethod |-> "manual", providerPaymentId |-> 0, rev |-> 0]
NullTime == 0 - 1
NoAct == [organizerId |-> 0, type |-> "one-time", startDateTime |-> NullTime,
          endDateTime |-> NullTime, availableSlots |-> 0, bookedSlots |-> 0,
          registrationFee |-> 0, isRegistrationOpen |-> FALSE, status |-> "upcoming",
          isActive |-> FALSE]
NoReq == [slug |-> "", email |-> "", phone |-> "", n |-> 0, gw |-> TRUE, event |-> "",
          order |-> 0, sig |-> <<>>, payId |-> "", field |-> "", slots |-> 0,
          flag |-> FALSE, status |-> "", fault |-> 0, mail |-> "sent"]
NoPre == [activity |-> NoAct, users |-> <<>>, registrations |-> <<>>, payments |-> <<>>,
          orders |-> 0, outbox |-> <<>>, tally |-> <<>>]

IdleProc ==
  [pc |-> "idle", kind |-> "none", req |-> NoReq, act |-> NoAct, user |-> NoUser,
   reg |-> NoReg, pay |-> NoPay, ndb |-> 0, resp |-> 0, why |-> "", pre |-> NoPre]

\* first index of a sequence satisfying a test (0 if none): SELECT ... LIMIT 1
RECURSIVE FirstIdx(_, _, _)
FirstIdx(seq, Test(_), i) ==
  IF i > Len(seq) THEN 0
  ELSE IF Test(seq[i]) THEN i ELSE FirstIdx(seq, Test, i + 1)

\* a read route has not answered yet
NoView == [route |-> "none", code |-> 0, status |-> "", currentStatus |-> ""]

\* The store as one value.
World ==
  [activity |-> activity, users |-> users, registrations |-> registrations,
   payments |-> payments, orders |-> orders, outbox |-> outbox, tally |-> tally]

\* results of a step: the store and the frame after it
Ret(w, f, code, why) == [w |-> w, f |-> [f EXCEPT !.pc = "done", !.resp = code, !.why = why]]
To(w, f, pc) == [w |-> w, f |-> [f EXCEPT !.pc = pc, !.ndb = @ + 1]]

\* -------------------------------------------------------------------------
\* Initial state: one activity as POST /activities inserts it (bookedSlots 0,
\* isActive true), owned by an organizer with or without gateway credentials.
\* -------------------------------------------------------------------------
Init ==
  /\ organizer \in OrgConfigs
  /\ \E oid \in {0, 1}, fee \in FeeValues :
       /\ (oid = 0 => organizer.razorpayKeyId = "")
       /\ activity = [organizerId |-> oid, type |-> "one-time", startDateTime |-> 1,
                      endDateTime |-> 2, availableSlots |-> MaxSlots,
                      bookedSlots |-> 0, registrationFee |-> fee,
                      isRegistrationOpen |-> TRUE, status |-> "upcoming", isActive |-> TRUE]
  /\ users = <<>>
  /\ registrations = <<>>
  /\ payments = <<>>
  /\ orders = 0
  /\ outbox = <<>>
  /\ tally = <<>>
  /\ procs = [p \in Procs |-> IdleProc]
  /\ nreq = 0
  /\ now = 0
  /\ schedules = <<>>
  /\ view = NoView

\* =========================================================================
\* POST /activities/:slug/register
\* =========================================================================
\* paymentMethod chosen from the organizer's credentials
PaymentMethodOf(act) ==
  IF act.organizerId # 0 /\ organizer.razorpayKeyId # "" /\ organizer.razorpayKeySecret # ""
  THEN "razorpay" ELSE "manual"

\* body validation, activity lookup and the openness / status gates
RegisterGate(req, act) ==
  IF req.email = "" /\ req.phone = "" THEN <<400, "missing">>
  ELSE IF req.n < MinTickets \/ req.n > MaxTickets THEN <<400, "tickets">>
  ELSE IF req.slug # "a1" THEN <<404, "notfound">>
  ELSE IF ~act.isActive \/ ~act.isRegistrationOpen THEN <<403, "notopen">>
  ELSE IF act.type = "one-time" /\ act.status \notin {"upcoming", "live"} THEN <<400, "closed">>
  ELSE <<0, "">>

RegLoadActivity(w, f) ==
  LET g == RegisterGate(f.req, w.activity) IN
    IF g[1] # 0 THEN Ret(w, f, g[1], g[2])
    ELSE To(w, [f EXCEPT !.act = w.activity], "r_user")

\* WHERE email ? users.email = email : users.phone = phone  LIMIT 1
FindUser(w, req) ==
  LET ByEmail(u) == u.email = req.email
      ByPhone(u) == u.phone = req.phone
  IN IF req.email # "" THEN FirstIdx(w.users, ByEmail, 1) ELSE FirstIdx(w.users, ByPhone, 1)

RegFindUser(w, f) ==
  LET i == FindUser(w, f.req) IN
    IF i # 0
    THEN To(w, [f EXCEPT !.user = [id |-> i, email |-> w.users[i].email,
                                   phone |-> w.users[i].phone]], "r_findreg")
    ELSE To(w, f, "r_mkuser")

\* users.email and users.phone carry UNIQUE constraints (NULLs never clash)
UserClash(w, req) ==
  \E i \in 1..Len(w.users) :
    \/ (req.email # "" /\ w.users[i].email = req.email)
    \/ (req.phone # "" /\ w.users[i].phone = req.phone)

RegInsertUser(w, f) ==
  IF UserClash(w, f.req) THEN Ret(w, f, 500, "internal")
  ELSE To([w EXCEPT !.users = Append(@, [email |-> f.req.email, phone |-> f.req.phone])],
          [f EXCEPT !.user = [id |-> Len(w.users) + 1, email |-> f.req.email,
                              phone |-> f.req.phone]],
          "r_findreg")

\* "Prevent overbooking": the check uses the activity row read at the start.
OverCapacity(act, n) == act.bookedSlots + n > act.availableSlots

\* variant: the lookup of the existing registration finds nothing
FindRegistrationNone(w, uid) == 0

FindRegistration(w, uid) ==
  LET Mine(r) == r.userId = uid IN FirstIdx(w.registrations, Mine, 1)

RegFindRegistration(w, f) ==
  LET i == FindRegistration(w, f.user.id) IN
    IF OverCapacity(f.act, f.req.n) THEN Ret(w, f, 400, "capacity")
    ELSE To(w, [f EXCEPT !.reg = IF i = 0 THEN NoReg ELSE w.registrations[i]], "r_writereg")

AfterRegistration(f) ==
  IF f.req.email # "" /\ f.act.organizerId # 0 THEN "r_email"
  ELSE IF f.act.registrationFee = 0 THEN "r_slots" ELSE "r_payment"

RegWriteRegistration(w, f) ==
  IF f.reg.id # 0
  THEN LET row == [w.registrations[f.reg.id] EXCEPT !.ticketCount = @ + f.req.n, !.rev = @ + 1]
       IN To([w EXCEPT !.registrations[f.reg.id] = row], [f EXCEPT !.reg = row],
             AfterRegistration(f))
  ELSE LET row == [id |-> Len(w.registrations) + 1, userId |-> f.user.id,
                   status |-> "registered", ticketCount |-> f.req.n, rev |-> 0]
       IN To([w EXCEPT !.registrations = Append(@, row)], [f EXCEPT !.reg = row],
             AfterRegistration(f))

\* the outbox after a call of sendRegistrationEmail
Deliver(w, f, mail) ==
  IF f.req.mail = "sent" THEN [w EXCEPT !.outbox = Append(@, mail)] ELSE w

\* variant: no try/catch around the call
RegSendEmailUncaught(w, f) ==
  IF f.req.mail = "throw" THEN Ret(w, f, 500, "internal")
  ELSE To(Deliver(w, f, [src |-> "register", reg |-> f.reg.id, to |-> f.req.email, pay |-> 0]),
          f, IF f.act.registrationFee = 0 THEN "r_slots" ELSE "r_payment")

\* "Send confirmation email for ALL registrations"; a failure is logged
RegSendEmail(w, f) ==
  To(Deliver(w, f, [src |-> "register", reg |-> f.reg.id, to |-> f.req.email, pay |-> 0]),
     f, IF f.act.registrationFee = 0 THEN "r_slots" ELSE "r_payment")

\* free path: bookedSlots = bookedSlots + additionalTickets
RegBookSlots(w, f) ==
  Ret([w EXCEPT !.activity.bookedSlots = @ + f.req.n], f, 200, "registered")

\* variant: an order is requested from the gateway for manual payments too
RegInsertPaymentAllToGateway(w, f) ==
  LET row == [id |-> Len(w.payments) + 1, registrationId |-> f.reg.id,
              amount |-> (f.act.registrationFee \div 100) * f.req.n,
              status |-> "pending", paymentMethod |-> PaymentMethodOf(f.act),
              providerPaymentId |-> 0, rev |-> 0]
  IN To([w EXCEPT !.payments = Append(@, row), !.tally = Append(@, [ok |-> 0, ko |-> 0])],
        [f EXCEPT !.pay = row], "r_order")

RegInsertPayment(w, f) ==
  LET method == PaymentMethodOf(f.act)
      row == [id |-> Len(w.payments) + 1, registrationId |-> f.reg.id,
              amount |-> (f.act.registrationFee \div 100) * f.req.n,
              status |-> "pending", paymentMethod |-> method,
              providerPaymentId |-> 0, rev |-> 0]
      w2 == [w EXCEPT !.payments = Append(@, row), !.tally = Append(@, [ok |-> 0, ko |-> 0])]
  IN IF method = "razorpay" THEN To(w2, [f EXCEPT !.pay = row], "r_order")
     ELSE Ret(w2, [f EXCEPT !.pay = row], 200, "payment")

\* razorpayInstance.orders.create: the gateway answers with a fresh order id
\* (req.gw) or the call fails
RegCreateOrder(w, f) ==
  IF f.req.gw
  THEN To([w EXCEPT !.orders = @ + 1], [f EXCEPT !.pay.providerPaymentId = w.orders + 1],
          "r_setorder")
  ELSE Ret(w, f, 500, "gateway")

\* variant: the order id is returned to the client but not stored
RegStoreOrderSkipped(w, f) == Ret(w, f, 200, "payment")

RegStoreOrder(w, f) ==
  Ret([w EXCEPT !.payments[f.pay.id].providerPaymentId = f.pay.providerPaymentId],
      f, 200, "payment")

RegisterHandler(w, f) ==
  CASE f.pc = "r_activity" -> RegLoadActivity(w, f)
    [] f.pc = "r_user"     -> RegFindUser(w, f)
    [] f.pc = "r_mkuser"   -> RegInsertUser(w, f)
    [] f.pc = "r_findreg"  -> RegFindRegistration(w, f)
    [] f.pc = "r_writereg" -> RegWriteRegistration(w, f)
    [] f.pc = "r_email"    -> RegSendEmail(w, f)
    [] f.pc = "r_slots"    -> RegBookSlots(w, f)
    [] f.pc = "r_payment"  -> RegInsertPayment(w, f)
    [] f.pc = "r_order"    -> RegCreateOrder(w, f)
    [] f.pc = "r_setorder" -> RegStoreOrder(w, f)

\* =========================================================================
\* POST /webhooks/razorpay
\* =========================================================================
\* createHmac('sha256', secret).update(data).digest('hex'): a keyed digest,
\* distinct for distinct (secret, data) pairs.
Hmac(secret, data) == <<secret, data>>
NoSig == <<>>

\* variant: any signature is accepted
verifyWebhookSignatureAny(body, signature, secret) == TRUE

verifyWebhookSignature(body, signature, secret) == signature = Hmac(secret, body)

WebhookBody(event, order) == [event |-> event, order |-> order]

\* payments.providerPaymentId = order  LIMIT 1  (a NULL id matches nothing)
FindPayment(w, order) ==
  LET Match(r) == r.providerPaymentId # 0 /\ r.providerPaymentId = order
  IN FirstIdx(w.payments, Match, 1)

\* payments JOIN registrations JOIN activities JOIN organizers
FindPaymentWithOrganizer(w, order) ==
  IF w.activity.organizerId = 0 THEN 0 ELSE FindPayment(w, order)

WebhookGate(w, req) ==
  IF req.sig = NoSig THEN <<400, "nosig">>
  ELSE IF FindPaymentWithOrganizer(w, req.order) = 0 THEN <<404, "notfound">>
  ELSE IF organizer.razorpayWebhookSecret = "" THEN <<500, "nosecret">>
  ELSE IF ~verifyWebhookSignature(WebhookBody(req.event, req.order), req.sig,
                                  organizer.razorpayWebhookSecret)
       THEN <<400, "badsig">>
  ELSE <<0, "">>

WebhookDispatch(event) ==
  IF event \in {"payment.captured", "order.paid"} THEN "s_find"
  ELSE IF event = "payment.failed" THEN "f_find"
  ELSE "w_ack"

WhVerifyAndDispatch(w, f) ==
  LET g == WebhookGate(w, f.req)
      nxt == WebhookDispatch(f.req.event)
  IN IF g[1] # 0 THEN Ret(w, f, g[1], g[2])
     ELSE IF nxt = "w_ack" THEN Ret(w, f, 200, "ignored")
     ELSE To(w, f, nxt)

\* ---- handlePaymentSuccess ----------------------------------------------
\* variant: no duplicate check
AlreadyProcessedNever(pay) == FALSE

AlreadyProcessed(pay) == pay.status = "completed"

SuccessFind(w, f) ==
  LET i == FindPayment(w, f.req.order) IN
    IF i = 0 THEN Ret(w, f, 200, "nopayment")
    ELSE IF AlreadyProcessed(w.payments[i]) THEN Ret(w, f, 200, "duplicate")
    ELSE To(w, [f EXCEPT !.pay = w.payments[i]], "s_complete")

SuccessComplete(w, f) ==
  To([w EXCEPT !.payments[f.pay.id].status = "completed", !.payments[f.pay.id].rev = @ + 1],
     f, "s_load")

\* the registration, activity and user rows are read one after another; only
\* the registration's ticketCount is used later and can change meanwhile
SuccessLoad(w, f) ==
  LET r == w.registrations[f.pay.registrationId]
      u == w.users[r.userId]
  IN To(w, [f EXCEPT !.reg = r, !.act = w.activity,
                     !.user = [id |-> r.userId, email |-> u.email, phone |-> u.phone]],
        "s_slots")

SuccessBookSlots(w, f) ==
  To([w EXCEPT !.activity.bookedSlots = @ + f.reg.ticketCount, !.tally[f.pay.id].ok = @ + 1],
     f, "s_touch")

SuccessTouch(w, f) ==
  LET w2 == [w EXCEPT !.registrations[f.reg.id].rev = @ + 1] IN
    IF f.user.email # "" THEN To(w2, f, "s_email") ELSE Ret(w2, f, 200, "completed")

SuccessEmail(w, f) ==
  Ret(Deliver(w, f, [src |-> "webhook", reg |-> f.reg.id, to |-> f.user.email,
                     pay |-> f.pay.id]),
      f, 200, "completed")

\* ---- handlePaymentFailed -----------------------------------------------
FailedFind(w, f) ==
  LET i == FindPayment(w, f.req.order) IN
    IF i = 0 THEN Ret(w, f, 200, "nopayment")
    ELSE To(w, [f EXCEPT !.pay = w.payments[i]], "f_fail")

FailedMark(w, f) ==
  To([w EXCEPT !.payments[f.pay.id].status = "failed", !.payments[f.pay.id].rev = @ + 1,
               !.tally[f.pay.id].ko = @ + 1],
     f, "f_cancel")

\* variant: the failure hands the tickets back
FailedCancelReleasesSlots(w, f) ==
  Ret([w EXCEPT !.registrations[f.pay.registrationId].status = "canceled",
                !.registrations[f.pay.registrationId].rev = @ + 1,
                !.activity.bookedSlots = @ - w.registrations[f.pay.registrationId].ticketCount],
      f, 200, "failed")

FailedCancel(w, f) ==
  Ret([w EXCEPT !.registrations[f.pay.registrationId].status = "canceled",
                !.registrations[f.pay.registrationId].rev = @ + 1],
      f, 200, "failed")

WebhookHandler(w, f) ==
  CASE f.pc = "w_lookup"   -> WhVerifyAndDispatch(w, f)
    [] f.pc = "s_find"     -> SuccessFind(w, f)
    [] f.pc = "s_complete" -> SuccessComplete(w, f)
    [] f.pc = "s_load"     -> SuccessLoad(w, f)
    [] f.pc = "s_slots"    -> SuccessBookSlots(w, f)
    [] f.pc = "s_touch"    -> SuccessTouch(w, f)
    [] f.pc = "s_email"    -> SuccessEmail(w, f)
    [] f.pc = "f_find"     -> FailedFind(w, f)
    [] f.pc = "f_fail"     -> FailedMark(w, f)
    [] f.pc = "f_cancel"   -> FailedCancel(w, f)

\* =========================================================================
\* POST /verify-payment
\* =========================================================================
VerifyGate(w, req) ==
  IF req.sig = NoSig THEN <<400, "missing">>
  ELSE IF FindPaymentWithOrganizer(w, req.order) = 0 THEN <<404, "notfound">>
  ELSE IF organizer.razorpayKeySecret = "" THEN <<500, "nosecret">>
  ELSE IF Hmac(organizer.razorpayKeySecret, <<req.order, req.payId>>) # req.sig
       THEN <<400, "badsig">>
  ELSE <<0, "">>

VerifyLookup(w, f) ==
  LET g == VerifyGate(w, f.req)
      i == FindPaymentWithOrganizer(w, f.req.order)
  IN IF g[1] # 0 THEN Ret(w, f, g[1], g[2])
     ELSE IF AlreadyProcessed(w.payments[i]) THEN Ret(w, f, 200, "already")
     ELSE To(w, [f EXCEPT !.pay = w.payments[i],
                          !.reg = w.registrations[w.payments[i].registrationId],
                          !.act = w.activity],
             "v_complete")

VerifyComplete(w, f) ==
  To([w EXCEPT !.payments[f.pay.id].status = "completed", !.payments[f.pay.id].rev = @ + 1],
     f, "v_slots")

\* variant: one seat per payment, whatever the ticket count
VerifyBookSlotsOneSeat(w, f) ==
  To([w EXCEPT !.activity.bookedSlots = @ + 1, !.tally[f.pay.id].ok = @ + 1], f, "v_touch")

VerifyBookSlots(w, f) ==
  To([w EXCEPT !.activity.bookedSlots = @ + f.reg.ticketCount, !.tally[f.pay.id].ok = @ + 1],
     f, "v_touch")

\* touches the registration, then reads the (immutable) user row
VerifyTouch(w, f) ==
  LET w2 == [w EXCEPT !.registrations[f.reg.id].rev = @ + 1]
      u == w.users[f.reg.userId]
  IN IF u.email # ""
     THEN To(w2, [f EXCEPT !.user = [id |-> f.reg.userId, email |-> u.email,
                                     phone |-> u.phone]], "v_email")
     ELSE Ret(w2, f, 200, "verified")

VerifyEmail(w, f) ==
  Ret(Deliver(w, f, [src |-> "verify", reg |-> f.reg.id, to |-> f.user.email,
                     pay |-> f.pay.id]),
      f, 200, "verified")

VerifyHandler(w, f) ==
  CASE f.pc = "v_lookup"   -> VerifyLookup(w, f)
    [] f.pc = "v_complete" -> VerifyComplete(w, f)
    [] f.pc = "v_slots"    -> VerifyBookSlots(w, f)
    [] f.pc = "v_touch"    -> VerifyTouch(w, f)
    [] f.pc = "v_email"    -> VerifyEmail(w, f)

\* =========================================================================
\* Organizer operations on the activity row
\* =========================================================================
\* PUT /activities/:id : every field present in the body overwrites the row
PutUpdate(w, f) ==
  IF f.req.field = "availableSlots"
  THEN Ret([w EXCEPT !.activity.availableSlots = f.req.slots], f, 200, "updated")
  ELSE Ret([w EXCEPT !.activity.isRegistrationOpen = f.req.flag], f, 200, "updated")

\* PATCH /activities/:id/status
PatchUpdate(w, f) ==
  IF w.activity.type = "recurring" THEN Ret(w, f, 400, "recurring")
  ELSE Ret([w EXCEPT !.activity.status = f.req.status], f, 200, "updated")

\* DELETE /activities/:id (soft delete)
DeleteUpdate(w, f) == Ret([w EXCEPT !.activity.isActive = FALSE], f, 200, "deleted")

\* =========================================================================
\* Running a handler
\* =========================================================================
\* steps that are not database calls (mail provider, payment gateway)
NonDbSteps == {"r_email", "r_order", "s_email", "v_email"}

\* the database call of this step throws (req.fault names the failing step)
Faulted(f) == f.req.fault # 0 /\ f.req.fault = f.ndb + 1 /\ f.pc \notin NonDbSteps

\* variant: no try/catch inside handlePaymentSuccess / handlePaymentFailed
ThrowUncaught(w, f) == Ret(w, f, 500, "internal")

\* handlePaymentSuccess / handlePaymentFailed catch and log; every other
\* handler's outer catch answers 500
Throw(w, f) ==
  IF f.kind = "webhook" /\ f.pc # "w_lookup" THEN Ret(w, f, 200, "error")
  ELSE Ret(w, f, 500, "internal")

HandlerStep(w, f) ==
  IF Faulted(f) THEN Throw(w, f)
  ELSE CASE f.kind = "register" -> RegisterHandler(w, f)
         [] f.kind = "webhook"  -> WebhookHandler(w, f)
         [] f.kind = "verify"   -> VerifyHandler(w, f)
         [] f.kind = "put"      -> PutUpdate(w, f)
         [] f.kind = "patch"    -> PatchUpdate(w, f)
         [] f.kind = "delete"   -> DeleteUpdate(w, f)

\* a handler run from its current step to its response
RECURSIVE Run(_, _)
Run(w, f) ==
  IF f.pc = "done" THEN [w |-> w, f |-> f]
  ELSE LET r == HandlerStep(w, f) IN Run(r.w, r.f)

NewFrame(kind, pc, req) ==
  [IdleProc EXCEPT !.kind = kind, !.pc = pc, !.req = req, !.pre = World]

Free(p) == procs[p].pc \in {"idle", "done"}

Apply(p, r) ==
  /\ activity' = r.w.activity
  /\ users' = r.w.users
  /\ registrations' = r.w.registrations
  /\ payments' = r.w.payments
  /\ orders' = r.w.orders
  /\ outbox' = r.w.outbox
  /\ tally' = r.w.tally
  /\ procs' = [procs EXCEPT ![p] = r.f]
  /\ UNCHANGED <<organizer, now, schedules, view>>

\* a request arrives at handler p
Accept(p, kind, pc, inputs) ==
  /\ Free(p)
  /\ nreq < MaxRequests
  /\ nreq' = nreq + 1
  /\ \E req \in inputs :
       procs' = [procs EXCEPT ![p] = [IdleProc EXCEPT !.kind = kind, !.pc = pc, !.req = req]]
  /\ UNCHANGED <<activity, organizer, users, registrations, payments, orders, outbox, tally,
                 now, schedules, view>>

\* once the response is sent only the request and the response remain
Settle(r) ==
  IF r.f.pc # "done" THEN r
  ELSE [r EXCEPT !.f = [IdleProc EXCEPT !.pc = "done", !.kind = r.f.kind, !.req = r.f.req,
                                        !.resp = r.f.resp, !.why = r.f.why]]

\* handler p performs its next awaited call
Advance(p, kind) ==
  /\ ~Free(p)
  /\ procs[p].kind = kind
  /\ Apply(p, Settle(HandlerStep(World, procs[p])))
  /\ UNCHANGED nreq

\* a request is handled from arrival to response without interruption
Serve(p, kind, pc, inputs) ==
  /\ Free(p)
  /\ nreq < MaxRequests
  /\ nreq' = nreq + 1
  /\ \E req \in inputs : Apply(p, Run(World, NewFrame(kind, pc, req)))

\* ------------------------------------------------------------ the inputs
GatewayOutcomes ==
  IF PaymentMethodOf(activity) = "razorpay" /\ activity.registrationFee # 0
  THEN BOOLEAN ELSE {TRUE}

RegisterInputs ==
  {[NoReq EXCEPT !.slug = "a1", !.email = idn.email, !.phone = idn.phone, !.n = n, !.gw = g] :
     idn \in Identities, n \in TicketInputs, g \in GatewayOutcomes}
  \cup {[NoReq EXCEPT !.slug = "zz", !.email = "e1", !.phone = "p1", !.n = 1],
        [NoReq EXCEPT !.slug = "a1", !.n = 1],
        [NoReq EXCEPT !.slug = "a1", !.email = "e1", !.phone = "p1", !.n = MaxTickets + 1]}

WebhookInputs ==
  {[NoReq EXCEPT !.event = e, !.order = o, !.sig = Hmac(s, WebhookBody(e, o))] :
     e \in EventTypes, o \in 1..orders, s \in SigSecrets}
  \cup {[NoReq EXCEPT !.event = "payment.captured", !.order = o, !.sig = NoSig] :
          o \in 1..orders}
  \cup {[NoReq EXCEPT !.event = "payment.captured", !.order = o,
                      !.sig = Hmac("whsec_A", WebhookBody("payment.failed", o))] :
          o \in 1..orders}
  \cup {[NoReq EXCEPT !.event = "payment.captured", !.order = UnknownOrder,
                      !.sig = Hmac("whsec_A", WebhookBody("payment.captured", UnknownOrder))]}

VerifyInputs ==
  {[NoReq EXCEPT !.order = o, !.payId = "pay_1", !.sig = Hmac(k, <<o, "pay_1">>)] :
     o \in 1..orders, k \in KeySecrets}
  \cup {[NoReq EXCEPT !.order = o, !.payId = "pay_1", !.sig = NoSig] : o \in 1..orders}
  \cup {[NoReq EXCEPT !.order = UnknownOrder, !.payId = "pay_1",
                      !.sig = Hmac("key_A", <<UnknownOrder, "pay_1">>)]}

\* the well-formed requests, whose steps can race
RacingIdentities == {idn \in Identities : idn.email # "e2"}

RacingRegisterInputs ==
  {[NoReq EXCEPT !.slug = "a1", !.email = idn.email, !.phone = idn.phone, !.n = n] :
     idn \in RacingIdentities, n \in TicketInputs}

RacingWebhookInputs ==
  {[NoReq EXCEPT !.event = e, !.order = o, !.sig = Hmac("whsec_A", WebhookBody(e, o))] :
     e \in {"payment.captured", "payment.failed"}, o \in 1..orders}

RacingVerifyInputs ==
  {[NoReq EXCEPT !.order = o, !.payId = "pay_1", !.sig = Hmac("key_A", <<o, "pay_1">>)] :
     o \in 1..orders}

PutInputs ==
  {[NoReq EXCEPT !.field = "availableSlots", !.slots = v] : v \in 0..MaxSlots}
  \cup {[NoReq EXCEPT !.field = "isRegistrationOpen", !.flag = b] : b \in BOOLEAN}

PatchInputs == {[NoReq EXCEPT !.status = st] : st \in StatusValues}

\* positions of the awaited calls of the webhook handler
FaultSteps == 1..6

WebhookFaultInputs ==
  {[NoReq EXCEPT !.event = e, !.order = o, !.sig = Hmac("whsec_A", WebhookBody(e, o)),
                 !.fault = k] :
     e \in EventTypes, o \in 1..orders, k \in FaultSteps}

\* =========================================================================
\* Concurrent requests: the awaited calls of different handlers interleave
\* =========================================================================
StartRegister(p) == Accept(p, "register", "r_activity", RacingRegisterInputs)
RegisterStep(p) == Advance(p, "register")
StartWebhook(p) == Accept(p, "webhook", "w_lookup", RacingWebhookInputs)
WebhookStep(p) == Advance(p, "webhook")
StartVerify(p) == Accept(p, "verify", "v_lookup", RacingVerifyInputs)
VerifyStep(p) == Advance(p, "verify")

Next ==
  \E p \in Procs :
    \/ StartRegister(p)
    \/ RegisterStep(p)
    \/ StartWebhook(p)
    \/ WebhookStep(p)
    \/ StartVerify(p)
    \/ VerifyStep(p)

Spec == Init /\ [][Next]_vars

\* =========================================================================
\* Requests handled strictly one at a time
\* =========================================================================
Register == Serve(1, "register", "r_activity", RegisterInputs)
Webhook == Serve(1, "webhook", "w_lookup", WebhookInputs)
VerifyPayment == Serve(1, "verify", "v_lookup", VerifyInputs)
PutActivity == Serve(1, "put", "a_update", PutInputs)
PatchStatus == Serve(1, "patch", "a_update", PatchInputs)
DeleteActivity == Serve(1, "delete", "a_update", {NoReq})

NextSeq ==
  \/ Register
  \/ Webhook
  \/ VerifyPayment
  \/ PutActivity
  \/ PatchStatus
  \/ DeleteActivity

SpecSeq == Init /\ [][NextSeq]_vars

\* ... and a database call inside the webhook handler may throw
WebhookDbError == Serve(1, "webhook", "w_lookup", WebhookFaultInputs)

NextFault == NextSeq \/ WebhookDbError

SpecFault == Init /\ [][NextFault]_vars

\* =========================================================================
\* Requests one at a time, the mail provider failing or not
\* =========================================================================
MailRegisterInputs ==
  {[NoReq EXCEPT !.slug = "a1", !.email = idn.email, !.phone = idn.phone, !.n = n, !.mail = m] :
     idn \in RacingIdentities, n \in TicketInputs, m \in MailOutcomes}

MailWebhookInputs ==
  {[NoReq EXCEPT !.event = e, !.order = o, !.sig = Hmac("whsec_A", WebhookBody(e, o)),
                 !.mail = m] :
     e \in {"payment.captured", "payment.failed"}, o \in 1..orders, m \in MailOutcomes}

MailVerifyInputs ==
  {[NoReq EXCEPT !.order = o, !.payId = "pay_1", !.sig = Hmac("key_A", <<o, "pay_1">>),
                 !.mail = m] :
     o \in 1..orders, m \in MailOutcomes}

RegisterMail == Serve(1, "register", "r_activity", MailRegisterInputs)
WebhookMail == Serve(1, "webhook", "w_lookup", MailWebhookInputs)
VerifyMail == Serve(1, "verify", "v_lookup", MailVerifyInputs)

NextMail ==
  \/ RegisterMail
  \/ WebhookMail
  \/ VerifyMail

SpecMail == Init /\ [][NextMail]_vars

\* =========================================================================
\* Status by the clock: derived status on the read routes, the status sweep
\* =========================================================================
\* The clock counts ticks from a Sunday 00:00; a day has the ticks DayTicks.
DayTicks == {0, 1, 2}
daysOfWeek == <<"Sunday", "Monday", "Tuesday", "Wednesday", "Thursday", "Friday", "Saturday">>

\* now.getDay() and the hour/minute/second of now
DayIndex(t) == (t \div Cardinality(DayTicks)) % 7
TimeOfDay(t) == t % Cardinality(DayTicks)

\* schedules.find((s) => s.dayOfWeek === day): position of the first such row
FindSchedule(rows, day) ==
  LET OnDay(r) == r.dayOfWeek = day IN FirstIdx(rows, OnDay, 1)

\* variant: the scan wraps into the next week
LaterThisWeekWrapping(rows, t) ==
  \E i \in 1..6 : FindSchedule(rows, daysOfWeek[((DayIndex(t) + i) % 7) + 1]) # 0

\* "Check if there's any upcoming schedule this week"
LaterThisWeek(rows, t) ==
  \E i \in 1..(6 - DayIndex(t)) : FindSchedule(rows, daysOfWeek[DayIndex(t) + i + 1]) # 0

getRecurringActivityStatus(rows, t) ==
  LET k == FindSchedule(rows, daysOfWeek[DayIndex(t) + 1]) IN
    IF k # 0 /\ TimeOfDay(t) >= rows[k].startTime /\ TimeOfDay(t) <= rows[k].endTime
      THEN "live"
    ELSE IF k # 0 /\ TimeOfDay(t) < rows[k].startTime THEN "upcoming"
    ELSE IF LaterThisWeek(rows, t) THEN "upcoming"
    ELSE "completed"

\* variant: the window is half open, [start, end)
OneTimeStatusHalfOpen(act, t) ==
  IF act.startDateTime # NullTime /\ act.endDateTime # NullTime
  THEN IF t >= act.startDateTime /\ t < act.endDateTime THEN "live"
       ELSE IF t >= act.endDateTime THEN "completed"
       ELSE "upcoming"
  ELSE "upcoming"

\* "Dynamically calculate status for one-time activities"
OneTimeStatus(act, t) ==
  IF act.startDateTime # NullTime /\ act.endDateTime # NullTime
  THEN IF t >= act.startDateTime /\ t <= act.endDateTime THEN "live"
       ELSE IF t > act.endDateTime THEN "completed"
       ELSE "upcoming"
  ELSE "upcoming"

\* the activity as a read route returns it: the row plus currentStatus
Enrich(route, act, rows, t) ==
  [route |-> route, code |-> 200, status |-> act.status,
   currentStatus |-> IF act.type = "recurring" THEN getRecurringActivityStatus(rows, t)
                     ELSE OneTimeStatus(act, t)]

\* GET /activities (optional filter on the stored status)
ListFilters == {"", "canceled"}

ListActivities ==
  /\ \E q \in ListFilters :
       view' = IF activity.organizerId # 0 /\ activity.isActive
                  /\ (q = "" \/ activity.status = q)
               THEN Enrich("list", activity, schedules, now)
               ELSE [NoView EXCEPT !.route = "list", !.code = 200]
  /\ UNCHANGED <<activity, organizer, users, registrations, payments, orders, outbox, tally,
                 procs, nreq, now, schedules>>

\* GET /activities/:id
GetActivity ==
  /\ view' = Enrich("detail", activity, schedules, now)
  /\ UNCHANGED <<activity, organizer, users, registrations, payments, orders, outbox, tally,
                 procs, nreq, now, schedules>>

\* GET /activities/:slug
GetActivityBySlug ==
  /\ view' = Enrich("slug", activity, schedules, now)
  /\ UNCHANGED <<activity, organizer, users, registrations, payments, orders, outbox, tally,
                 procs, nreq, now, schedules>>

\* ---- the status sweep: three UPDATE statements with the same now ----------
InWindow(act, t) ==
  /\ act.startDateTime # NullTime /\ act.startDateTime <= t
  /\ act.endDateTime # NullTime /\ act.endDateTime >= t

Ended(act, t) == act.endDateTime # NullTime /\ act.endDateTime < t

\* variant: the start of the window is excluded
SetLiveExclusive(act, t) ==
  IF act.type = "one-time" /\ InWindow(act, t) /\ act.startDateTime < t
     /\ act.status = "upcoming"
  THEN [act EXCEPT !.status = "live"] ELSE act

SetLive(act, t) ==
  IF act.type = "one-time" /\ InWindow(act, t) /\ act.status = "upcoming"
  THEN [act EXCEPT !.status = "live"] ELSE act

SetCompleted(act, t, from) ==
  IF act.type = "one-time" /\ Ended(act, t) /\ act.status = from
  THEN [act EXCEPT !.status = "completed"] ELSE act

\* variant: the third statement also completes canceled activities
SweepCanceledToo(act, t) ==
  SetCompleted(SetCompleted(SetCompleted(SetLive(act, t), t, "upcoming"), t, "live"),
               t, "canceled")

Sweep(act, t) == SetCompleted(SetCompleted(SetLive(act, t), t, "upcoming"), t, "live")

\* the cron trigger of the worker
scheduled ==
  /\ activity' = Sweep(activity, now)
  /\ view' = [NoView EXCEPT !.route = "scheduled", !.status = activity'.status]
  /\ UNCHANGED <<organizer, users, registrations, payments, orders, outbox, tally,
                 procs, nreq, now, schedules>>

\* GET /cron/update-activity-status with the x-cron-secret header
CronSecret == "cron_A"
CronHeaders == {"cron_A", "cron_B", ""}

CronRoute ==
  /\ \E secret \in CronHeaders :
       IF secret = "" \/ secret # CronSecret
       THEN /\ view' = [NoView EXCEPT !.route = "cron", !.code = 401]
            /\ UNCHANGED activity
       ELSE /\ activity' = Sweep(activity, now)
            /\ view' = [NoView EXCEPT !.route = "cron", !.code = 200,
                                      !.status = activity'.status]
  /\ UNCHANGED <<organizer, users, registrations, payments, orders, outbox, tally,
                 procs, nreq, now, schedules>>

\* time passes
Tick ==
  /\ now < MaxTime
  /\ now' = now + 1
  /\ UNCHANGED <<activity, organizer, users, registrations, payments, orders, outbox, tally,
                 procs, nreq, schedules, view>>

\* [startDateTime, endDateTime] of the one-time activity, as the organizer
\* gave them (nothing orders the two)
Windows == {<<0, 1>>, <<2, 2>>, <<2, 4>>, <<4, 2>>}

\* the weekly schedules of the recurring activity
At(day, from, to) == [dayOfWeek |-> day, startTime |-> from, endTime |-> to]
ScheduleSets ==
  { <<At("Monday", 1, 1)>>,
    <<At("Monday", 1, 1), At("Wednesday", 0, 2)>>,
    <<At("Saturday", 0, 1), At("Sunday", 1, 1)>>,
    <<At("Tuesday", 0, 0), At("Tuesday", 2, 2)>> }

\* "Determine initial status" of POST /activities
InitialStatus(type, win, t) ==
  IF type # "one-time" THEN "upcoming"
  ELSE IF t >= win[1] /\ t <= win[2] THEN "live"
  ELSE IF t > win[2] THEN "completed"
  ELSE "upcoming"

\* a free activity, one-time or recurring, created at time 0
InitClock ==
  /\ organizer \in {o \in OrgConfigs : o.razorpayKeyId = ""}
  /\ now = 0
  /\ \E oid \in {0, 1} :
       \/ /\ schedules = <<>>
          /\ \E win \in Windows :
               activity = [organizerId |-> oid, type |-> "one-time", startDateTime |-> win[1],
                           endDateTime |-> win[2], availableSlots |-> MaxSlots,
                           bookedSlots |-> 0, registrationFee |-> 0,
                           isRegistrationOpen |-> TRUE,
                           status |-> InitialStatus("one-time", win, now), isActive |-> TRUE]
       \/ /\ schedules \in ScheduleSets
          /\ activity = [organizerId |-> oid, type |-> "recurring", startDateTime |-> NullTime,
                         endDateTime |-> NullTime, availableSlots |-> MaxSlots,
                         bookedSlots |-> 0, registrationFee |-> 0,
                         isRegistrationOpen |-> TRUE,
                         status |-> InitialStatus("recurring", <<0, 0>>, now),
                         isActive |-> TRUE]
  /\ users = <<>>
  /\ registrations = <<>>
  /\ payments = <<>>
  /\ orders = 0
  /\ outbox = <<>>
  /\ tally = <<>>
  /\ procs = [p \in Procs |-> IdleProc]
  /\ nreq = 0
  /\ view = NoView

NextClock ==
  \/ Tick
  \/ ListActivities
  \/ GetActivity
  \/ GetActivityBySlug
  \/ scheduled
  \/ CronRoute
  \/ PatchStatus

SpecClock == InitClock /\ [][NextClock]_vars

\* register requests while time passes and the sweep runs now and then
ClockRegisterInputs ==
  {[NoReq EXCEPT !.slug = "a1", !.email = "e1", !.phone = "p1", !.n = 1]}

RegisterByClock == Serve(1, "register", "r_activity", ClockRegisterInputs)

NextGate ==
  \/ Tick
  \/ scheduled
  \/ RegisterByClock

SpecGate == InitClock /\ [][NextGate]_vars

\* =========================================================================
\* Properties
\* =========================================================================
Quiescent == \A p \in Procs : Free(p)

\* the request handled last under SpecSeq / SpecFault, with the store it found
Last == procs[1]

SuccessEvents == {"payment.captured", "order.paid"}

\* the payments a gateway order id refers to
OrderPayments(pays, order) ==
  {i \in 1..Len(pays) : pays[i].providerPaymentId # 0 /\ pays[i].providerPaymentId = order}

MailsFor(i) == {k \in 1..Len(outbox) : outbox[k].pay = i}

\* C1: under any interleaving of concurrent register requests against one
\* activity, once all requests have finished bookedSlots does not exceed
\* availableSlots (no payment reconciliation involved).
C1_NoOverbooking ==
  (Quiescent /\ \A i \in 1..Len(tally) : tally[i].ok = 0)
    => activity.bookedSlots <= activity.availableSlots

\* C2: bookedSlots <= availableSlots holds after every committed operation,
\* requests being handled one at a time.
C2_CapacityInvariant == activity.bookedSlots <= activity.availableSlots

\* C3: reconciliations of one pending payment that race each other increment
\* bookedSlots once and dispatch at most one confirmation.
C3_ReconciledOnce ==
  \A i \in 1..Len(payments) :
    tally[i].ko = 0 => (tally[i].ok <= 1 /\ Cardinality(MailsFor(i)) <= 1)

\* C4: success webhooks for one payment delivered one after another increment
\* bookedSlots exactly once; a delivery that finds the payment completed
\* changes no row and sends no mail.
C4_DuplicateDeliveryIsNoOp ==
  /\ \A i \in 1..Len(payments) :
       tally[i].ko = 0 => tally[i].ok = (IF payments[i].status = "completed" THEN 1 ELSE 0)
  /\ \A i \in OrderPayments(Last.pre.payments, Last.req.order) :
       (/\ Last.kind = "webhook"
        /\ Last.resp = 200
        /\ Last.req.event \in SuccessEvents
        /\ Last.pre.payments[i].status = "completed")
         => World = Last.pre

C4_Witness ==
  \E i \in OrderPayments(Last.pre.payments, Last.req.order) :
    /\ Last.kind = "webhook"
    /\ Last.resp = 200
    /\ Last.req.event \in SuccessEvents
    /\ Last.pre.payments[i].status = "completed"
    /\ tally[i].ok = 1
    /\ tally[i].ko = 0

\* C5: a reconciliation attempt (success webhook, failure webhook, verify) for
\* a payment that is already completed or failed leaves the payment status,
\* the registration status and bookedSlots as they were.
C5_TerminalPayments ==
  \A i \in OrderPayments(Last.pre.payments, Last.req.order) :
    (/\ Last.kind \in {"webhook", "verify"}
     /\ Last.pre.payments[i].status \in {"completed", "failed"})
      => /\ payments[i].status = Last.pre.payments[i].status
         /\ registrations[payments[i].registrationId].status =
              Last.pre.registrations[payments[i].registrationId].status
         /\ activity.bookedSlots = Last.pre.activity.bookedSlots

\* the user rows a request's identity refers to, by email or by phone
KnownAs(us, req) ==
  {u \in 1..Len(us) : \/ (req.email # "" /\ us[u].email = req.email)
                      \/ (req.phone # "" /\ us[u].phone = req.phone)}

RowsOf(regs, uids) == {i \in 1..Len(regs) : regs[i].userId \in uids}

WellFormedRegister(req) ==
  /\ req.slug = "a1"
  /\ req.email # "" \/ req.phone # ""
  /\ req.n >= MinTickets /\ req.n <= MaxTickets

OpenForRegistration(act) ==
  /\ act.isActive
  /\ act.isRegistrationOpen
  /\ act.status \in {"upcoming", "live"}

\* C6: on an active, open, free activity with room for n more tickets, a
\* register request for n tickets by a user with no prior registration ends
\* with bookedSlots increased by n, exactly one registration of that user
\* (registered, ticketCount n) and no payment row created.
C6_FreeRegistration ==
  (/\ Last.kind = "register"
   /\ WellFormedRegister(Last.req)
   /\ OpenForRegistration(Last.pre.activity)
   /\ Last.pre.activity.registrationFee = 0
   /\ Last.pre.activity.bookedSlots + Last.req.n <= Last.pre.activity.availableSlots
   /\ RowsOf(Last.pre.registrations, KnownAs(Last.pre.users, Last.req)) = {})
    => /\ Last.resp = 200
       /\ activity.bookedSlots = Last.pre.activity.bookedSlots + Last.req.n
       /\ Cardinality(RowsOf(registrations, KnownAs(users, Last.req))) = 1
       /\ \A i \in RowsOf(registrations, KnownAs(users, Last.req)) :
            registrations[i].status = "registered" /\ registrations[i].ticketCount = Last.req.n
       /\ payments = Last.pre.payments

\* C7: a register request whose ticketCount would take bookedSlots past
\* availableSlots is rejected with a client error, bookedSlots is unchanged
\* and no registration is created or incremented.
C7_CapacityRejection ==
  (/\ Last.kind = "register"
   /\ Last.pre.activity.bookedSlots + Last.req.n > Last.pre.activity.availableSlots)
    => /\ Last.resp >= 400 /\ Last.resp <= 499
       /\ activity.bookedSlots = Last.pre.activity.bookedSlots
       /\ registrations = Last.pre.registrations

\* C8: when a user's register request is accepted and the user already holds
\* a registration with m tickets, the user ends with exactly one registration
\* row, whose ticketCount is m + n (n alone for a first registration).
C8_ReRegistrationAdds ==
  (Last.kind = "register" /\ Last.resp = 200)
    => LET me == KnownAs(users, Last.req)
           rows == RowsOf(registrations, me)
       IN /\ Cardinality(rows) = 1
          /\ \A i \in rows :
               registrations[i].ticketCount =
                 Last.req.n + (IF i \in RowsOf(Last.pre.registrations, me)
                               THEN Last.pre.registrations[i].ticketCount ELSE 0)

C8_Witness ==
  /\ Last.kind = "register"
  /\ Last.resp = 200
  /\ \E i \in RowsOf(Last.pre.registrations, KnownAs(users, Last.req)) :
       /\ Last.pre.registrations[i].ticketCount = 1
       /\ Last.req.n = 2
       /\ registrations[i].ticketCount = 3
  /\ Len(registrations) = 1

\* C9: a webhook whose signature header is not the HMAC of the raw body under
\* the organizer's webhook secret, or whose organizer has no webhook secret,
\* gets a non-200 response and changes no row.
C9_BadSignatureRejected ==
  (/\ Last.kind = "webhook"
   /\ \/ organizer.razorpayWebhookSecret = ""
      \/ Last.req.sig # Hmac(organizer.razorpayWebhookSecret,
                             WebhookBody(Last.req.event, Last.req.order)))
    => (Last.resp # 200 /\ World = Last.pre)

C9_Witness ==
  /\ Last.kind = "webhook"
  /\ organizer.razorpayWebhookSecret # ""
  /\ Last.req.sig # NoSig
  /\ Last.req.sig # Hmac(organizer.razorpayWebhookSecret,
                         WebhookBody(Last.req.event, Last.req.order))
  /\ \E i \in OrderPayments(payments, Last.req.order) : payments[i].status = "pending"
  /\ Last.resp = 400

\* C10: once the signature check has passed, the webhook is answered 200 for
\* every event type, also when a database call inside the success or failure
\* handling throws; an unrecognized event type changes no row.
C10_AlwaysAcknowledged ==
  (/\ Last.kind = "webhook"
   /\ Last.pre.activity.organizerId # 0
   /\ OrderPayments(Last.pre.payments, Last.req.order) # {}
   /\ organizer.razorpayWebhookSecret # ""
   /\ Last.req.sig = Hmac(organizer.razorpayWebhookSecret,
                          WebhookBody(Last.req.event, Last.req.order))
   /\ Last.req.fault # 1)
    => /\ Last.resp = 200
       /\ Last.req.event \notin (SuccessEvents \cup {"payment.failed"}) => World = Last.pre

C10_Witness ==
  /\ Last.kind = "webhook"
  /\ Last.req.event \in SuccessEvents
  /\ Last.req.fault > 1
  /\ Last.resp = 200
  /\ \E i \in OrderPayments(payments, Last.req.order) :
       Last.pre.payments[i].status = "pending" /\ payments[i].status = "completed"
  /\ activity.bookedSlots = Last.pre.activity.bookedSlots

\* ---- status by the clock -------------------------------------------------
\* a read route answers with the activity
ReadStep == ListActivities \/ GetActivity \/ GetActivityBySlug
Answered == view'.code = 200 /\ view'.currentStatus # ""

C12_CanceledIsAuthoritative ==
  [][(ReadStep /\ Answered /\ activity.type = "one-time" /\ activity.status = "canceled")
       => view'.currentStatus = "canceled"]_vars

\* the schedule entries of a weekday, and the weekdays' positions in the week
EntriesOn(d) == {k \in 1..Len(schedules) : schedules[k].dayOfWeek = daysOfWeek[d + 1]}
OnePerWeekday == \A d \in 0..6 : Cardinality(EntriesOn(d)) <= 1

ExpectedRecurring ==
  LET today == EntriesOn(DayIndex(now))
      tod == TimeOfDay(now)
  IN IF \E k \in today : schedules[k].startTime <= tod /\ tod <= schedules[k].endTime
       THEN "live"
     ELSE IF \E k \in today : tod < schedules[k].startTime THEN "upcoming"
     ELSE IF \E d \in 0..6 : d > DayIndex(now) /\ EntriesOn(d) # {} THEN "upcoming"
     ELSE "completed"

\* C13: a read of a recurring activity with at most one entry per weekday
\* reports live inside today's window, upcoming before it, otherwise upcoming
\* if a later weekday of this Sunday-to-Saturday week has an entry, otherwise
\* completed.
C13_RecurringDerivation ==
  [][(ReadStep /\ Answered /\ activity.type = "recurring" /\ OnePerWeekday)
       => view'.currentStatus = ExpectedRecurring]_vars

\* on the last day of the week, after its window, with an entry on Sunday:
\* completed, the scan does not wrap
C13_Witness ==
  /\ activity.type = "recurring"
  /\ OnePerWeekday
  /\ EntriesOn(0) # {}
  /\ DayIndex(now) = 6
  /\ \E k \in EntriesOn(6) : TimeOfDay(now) > schedules[k].endTime
  /\ view.route = "slug"
  /\ view.currentStatus = "completed"

\* C14: a register request for a one-time activity is accepted only while
\* the status derived from now and [start, end] is upcoming or live.
C14_RegisterGateByClock ==
  [][(RegisterByClock /\ procs'[1].resp = 200 /\ activity.type = "one-time")
       => OneTimeStatus(activity, now) \in {"upcoming", "live"}]_vars

\* a sweep that ran (cron trigger, or the route with the right secret)
SweepStep == scheduled \/ (CronRoute /\ view'.code = 200)

C15_ConfirmationAfterPayment ==
  activity.registrationFee > 0 =>
    \A k \in 1..Len(outbox) :
      /\ outbox[k].src # "register"
      /\ outbox[k].pay # 0
      /\ tally[outbox[k].pay].ok > 0

\* what a request leaves behind, run from the store w with mail outcome m
Outcome(kind, start, req, w, m) ==
  LET r == Run(w, [IdleProc EXCEPT !.kind = kind, !.pc = start, !.req = [req EXCEPT !.mail = m]])
  IN [resp |-> r.f.resp, activity |-> r.w.activity, users |-> r.w.users,
      registrations |-> r.w.registrations, payments |-> r.w.payments]

StartOf(kind) ==
  CASE kind = "register" -> "r_activity"
    [] kind = "webhook"  -> "w_lookup"
    [] kind = "verify"   -> "v_lookup"

\* the request reached its call of sendRegistrationEmail
Mailing(kind, req, w) ==
  LET sent == Run(w, [IdleProc EXCEPT !.kind = kind, !.pc = StartOf(kind),
                                      !.req = [req EXCEPT !.mail = "sent"]])
  IN Len(sent.w.outbox) > Len(w.outbox)

\* C16: the response and the stored state (users, registration, payment,
\* bookedSlots) of register, of the success webhook and of verify-payment are
\* the ones actually observed, whichever way the confirmation mail ends.
C16_MailFailureIsHarmless ==
  (Last.pc = "done" /\ Last.kind \in {"register", "webhook", "verify"}) =>
    \A m \in MailOutcomes :
      Outcome(Last.kind, StartOf(Last.kind), Last.req, Last.pre, m)
        = [resp |-> Last.resp, activity |-> activity, users |-> users,
           registrations |-> registrations, payments |-> payments]

\* a success webhook whose mail call threw completed the payment all the same
C16_Witness ==
  /\ Last.pc = "done"
  /\ Last.kind = "webhook"
  /\ Last.req.mail = "throw"
  /\ Mailing(Last.kind, Last.req, Last.pre)
  /\ Last.resp = 200
  /\ \E i \in 1..Len(payments) :
       /\ payments[i].status = "completed"
       /\ Last.pre.payments[i].status = "pending"
       /\ activity.bookedSlots > Last.pre.activity.bookedSlots

\* ---- order of the register checks, registrations per user ----------------
\* C18: a register request rejected for exceeding capacity leaves the whole
\* store as it found it; in particular no user row is created.
C18_CapacityRejectionChangesNothing ==
  (Last.pc = "done" /\ Last.kind = "register" /\ Last.why = "capacity")
    => /\ users = Last.pre.users
       /\ registrations = Last.pre.registrations
       /\ payments = Last.pre.payments
       /\ activity = Last.pre.activity

\* C19: whatever the interleaving of register requests, a user never holds two
\* registrations of the activity that are not canceled.
C19_OneRegistrationPerUser ==
  \A i, j \in 1..Len(registrations) :
    (/\ registrations[i].userId = registrations[j].userId
     /\ registrations[i].status # "canceled"
     /\ registrations[j].status # "canceled") => i = j

\* ---- the two entry points of reconciliation ------------------------------
Reconciled(w) ==
  [payments |-> w.payments, registrations |-> w.registrations,
   bookedSlots |-> w.activity.bookedSlots]

\* a correctly signed success webhook / verify-payment call for an order
ViaWebhook(w, order) ==
  Run(w, [IdleProc EXCEPT !.kind = "webhook", !.pc = "w_lookup",
            !.req = [NoReq EXCEPT !.event = "payment.captured", !.order = order,
                       !.sig = Hmac(organizer.razorpayWebhookSecret,
                                    WebhookBody("payment.captured", order))]]).w

ViaVerify(w, order) ==
  Run(w, [IdleProc EXCEPT !.kind = "verify", !.pc = "v_lookup",
            !.req = [NoReq EXCEPT !.order = order, !.payId = "pay_1",
                       !.sig = Hmac(organizer.razorpayKeySecret, <<order, "pay_1">>)]]).w

\* the last request was a valid reconciliation, and both entry points are
\* configured
ValidReconciliation ==
  /\ Last.pc = "done"
  /\ organizer.razorpayWebhookSecret # ""
  /\ organizer.razorpayKeySecret # ""
  /\ \/ /\ Last.kind = "webhook"
        /\ Last.req.event \in SuccessEvents
        /\ WebhookGate(Last.pre, Last.req)[1] = 0
     \/ /\ Last.kind = "verify"
        /\ VerifyGate(Last.pre, Last.req)[1] = 0

\* C20: from the same state a valid verify-payment call and a valid success
\* webhook for the same payment leave the same payments, registrations and
\* bookedSlots: the payment completed and the registration's ticketCount
\* added if it was not completed, nothing changed if it was.
C20_VerifyEqualsWebhook ==
  ValidReconciliation =>
    LET i == FindPayment(Last.pre, Last.req.order)
        before == Last.pre.payments[i]
    IN /\ Reconciled(World) = Reconciled(ViaWebhook(Last.pre, Last.req.order))
       /\ Reconciled(World) = Reconciled(ViaVerify(Last.pre, Last.req.order))
       /\ before.status = "completed" => Reconciled(World) = Reconciled(Last.pre)
       /\ before.status # "completed" =>
            /\ payments[i].status = "completed"
            /\ activity.bookedSlots = Last.pre.activity.bookedSlots
                 + Last.pre.registrations[before.registrationId].ticketCount

\* verify-payment completed a pending payment of a two-ticket registration
C20_Witness ==
  /\ ValidReconciliation
  /\ Last.kind = "verify"
  /\ \E i \in 1..Len(payments) :
       /\ i = FindPayment(Last.pre, Last.req.order)
       /\ Last.pre.payments[i].status = "pending"
       /\ payments[i].status = "completed"
       /\ registrations[payments[i].registrationId].ticketCount = 2
       /\ activity.bookedSlots = Last.pre.activity.bookedSlots + 2

\* ---- frame of the failure event and of the paid registration -------------
\* the last request was a correctly signed payment.failed event for a payment
\* that was pending
FailureOfPending ==
  /\ Last.pc = "done"
  /\ Last.kind = "webhook"
  /\ Last.req.event = "payment.failed"
  /\ WebhookGate(Last.pre, Last.req)[1] = 0
  /\ Last.pre.payments[FindPayment(Last.pre, Last.req.order)].status = "pending"

\* C21: a failure event for a pending payment sets the payment to failed and
\* its registration to canceled and leaves the activity row, bookedSlots
\* included, as it was; no register, webhook or verify-payment request ever
\* lowers bookedSlots.
C21_FailureLeavesSlots ==
  /\ FailureOfPending =>
       LET i == FindPayment(Last.pre, Last.req.order) IN
         /\ payments[i].status = "failed"
         /\ registrations[payments[i].registrationId].status = "canceled"
         /\ activity = Last.pre.activity
  /\ (Last.pc = "done" /\ Last.kind \in {"register", "webhook", "verify"})
       => activity.bookedSlots >= Last.pre.activity.bookedSlots

\* a failure event canceled a two-ticket registration whose payment was pending
C21_Witness ==
  /\ FailureOfPending
  /\ LET i == FindPayment(Last.pre, Last.req.order) IN
       /\ payments[i].status = "failed"
       /\ registrations[payments[i].registrationId].status = "canceled"
       /\ registrations[payments[i].registrationId].ticketCount = 2
  /\ activity.bookedSlots = Last.pre.activity.bookedSlots

\* the last request was a register request that went down the paid path of
\* an activity whose organizer has gateway credentials
PaidGatewayRegister ==
  /\ Last.pc = "done"
  /\ Last.kind = "register"
  /\ Last.pre.activity.registrationFee > 0
  /\ PaymentMethodOf(Last.pre.activity) = "razorpay"
  /\ Last.why \in {"payment", "gateway"}

\* C22: a register request for a paid activity with gateway credentials
\* leaves bookedSlots as it was, whether or not the order creation succeeds,
\* and adds exactly one payment row, pending, whose providerPaymentId is null
\* when the gateway returned no order id and that order id otherwise.
C22_PaidRegisterFrame ==
  PaidGatewayRegister =>
    /\ activity = Last.pre.activity
    /\ Len(payments) = Len(Last.pre.payments) + 1
    /\ SubSeq(payments, 1, Len(Last.pre.payments)) = Last.pre.payments
    /\ LET new == payments[Len(payments)] IN
         /\ new.status = "pending"
         /\ new.paymentMethod = "razorpay"
         /\ new.registrationId # 0
         /\ registrations[new.registrationId].userId = FindUser(World, Last.req)
         /\ (Last.req.gw => new.providerPaymentId = Last.pre.orders + 1 /\ Last.resp = 200)
         /\ (~Last.req.gw => new.providerPaymentId = 0 /\ Last.resp = 500)

\* the gateway answered a second paid registration with a second order id
C22_Witness ==
  /\ PaidGatewayRegister
  /\ Last.req.gw
  /\ Len(payments) = 2
  /\ payments[1].providerPaymentId = 1
  /\ payments[2].providerPaymentId = 2
  /\ activity.bookedSlots = 0

\* ---- where bookedSlots moves ---------------------------------------------
AcceptedRegister == Last.pc = "done" /\ Last.kind = "register" /\ Last.resp = 200

\* C23: an accepted register request adds its ticketCount to bookedSlots at
\* once when the activity is free or its fee is paid manually (organizer
\* without gateway credentials), and leaves bookedSlots alone when the fee
\* goes through the gateway.
C23_BookingTimeIncrement ==
  AcceptedRegister =>
    IF Last.pre.activity.registrationFee = 0
         \/ PaymentMethodOf(Last.pre.activity) = "manual"
    THEN activity.bookedSlots = Last.pre.activity.bookedSlots + Last.req.n
    ELSE activity.bookedSlots = Last.pre.activity.bookedSlots

\* C24: a paid registration whose gateway order creation fails is answered
\* with a gateway error and leaves no registration row or ticket increment,
\* no payment row and no change of bookedSlots behind.
C24_GatewayFailureLeavesNothing ==
  (Last.pc = "done" /\ Last.kind = "register" /\ Last.pre.activity.registrationFee > 0
     /\ PaymentMethodOf(Last.pre.activity) = "razorpay" /\ ~Last.req.gw
     /\ Last.why \in {"payment", "gateway"})
    => /\ Last.resp >= 500
       /\ registrations = Last.pre.registrations
       /\ payments = Last.pre.payments
       /\ activity = Last.pre.activity

\* C25: a success reconciliation that stops part-way leaves the payment
\* completed exactly if the slot increment was applied.
C25_ReconciliationIsAtomic ==
  (Last.pc = "done" /\ Last.kind = "webhook" /\ Last.req.event \in SuccessEvents
     /\ WebhookGate(Last.pre, Last.req)[1] = 0)
    => LET i == FindPayment(Last.pre, Last.req.order) IN
         (payments[i].status = "completed" /\ Last.pre.payments[i].status # "completed")
           <=> tally[i].ok = Last.pre.tally[i].ok + 1

\* C26: a register request with an email no user has and a phone an existing
\* user has resolves to that user: it does not fail and creates no user.
C26_ResolveByEmailOrPhone ==
  (/\ Last.pc = "done"
   /\ Last.kind = "register"
   /\ RegisterGate(Last.req, Last.pre.activity)[1] = 0
   /\ Last.req.email # ""
   /\ \A i \in 1..Len(Last.pre.users) : Last.pre.users[i].email # Last.req.email
   /\ \E i \in 1..Len(Last.pre.users) : Last.pre.users[i].phone = Last.req.phone)
    => /\ Last.resp < 500
       /\ users = Last.pre.users

\* ---- accounting of bookedSlots -------------------------------------------
\* the tickets of the request that created a payment: amount = fee/100 * n
TicketsPaid(pay) == pay.amount \div (activity.registrationFee \div 100)

RECURSIVE TicketsOfCompleted(_, _)
TicketsOfCompleted(pays, i) ==
  IF i > Len(pays) THEN 0
  ELSE (IF pays[i].status = "completed" THEN TicketsPaid(pays[i]) ELSE 0)
         + TicketsOfCompleted(pays, i + 1)

RECURSIVE TicketsRegistered(_, _)
TicketsRegistered(regs, i) ==
  IF i > Len(regs) THEN 0 ELSE regs[i].ticketCount + TicketsRegistered(regs, i + 1)

\* C27: with requests handled one at a time and no failure event, bookedSlots
\* is the number of tickets of the free registrations plus, for each
\* completed payment, the tickets of the request that created it.
C27_BookedSlotsAccounting ==
  (\A i \in 1..Len(tally) : tally[i].ko = 0) =>
    activity.bookedSlots =
      IF activity.registrationFee = 0 THEN TicketsRegistered(registrations, 1)
      ELSE TicketsOfCompleted(payments, 1)

\* the last request completed a payment by a valid reconciliation
CompletedNow(i) ==
  /\ ValidReconciliation
  /\ i = FindPayment(Last.pre, Last.req.order)
  /\ Last.pre.payments[i].status # "completed"
  /\ payments[i].status = "completed"

\* C28: after an accepted register request the user's registration has
\* status registered, and so has the registration of a payment that has
\* just been completed.
C28_LiveRegistrationIsRegistered ==
  /\ AcceptedRegister =>
       registrations[FindRegistration(World, FindUser(World, Last.req))].status = "registered"
  /\ \A i \in 1..Len(payments) :
       CompletedNow(i) => registrations[payments[i].registrationId].status = "registered"

StatusRank(st) ==
  CASE st = "upcoming"  -> 0
    [] st = "live"      -> 1
    [] st = "completed" -> 2
    [] st = "canceled"  -> 3

\* C30: for a one-time activity that is never edited, the stored status right
\* after a sweep is the status derived from now and [start, end], and the
\* stored status only moves forward along upcoming, live, completed.
C30_SweepFollowsDerivation ==
  [][(nreq' = 0 /\ activity.type = "one-time")
       => /\ SweepStep => activity'.status = OneTimeStatus(activity', now)
          /\ StatusRank(activity'.status) >= StatusRank(activity.status)
          /\ activity'.status # "canceled"]_vars

\* the cron trigger, run at the very start of the window, stored live
C30_Witness ==
  /\ nreq = 0
  /\ activity.type = "one-time"
  /\ activity.startDateTime > 0
  /\ now = activity.startDateTime
  /\ activity.status = "live"
  /\ view.route = "scheduled"
  /\ view.status = "live"

====
